---- MODULE Spec2Model ----
(*************************************************************************)
(* The automated teller machine of src/c1_state_machine/p3_atm.rs: a     *)
(* pure transition function next_state(state, action) over the triple    *)
(* (cash_inside, expected_pin_hash, keystroke_register).                  *)
(*************************************************************************)
EXTENDS Integers, Sequences, FiniteSets, TLC

\* ---------------------------------------------------------------- bounds
\* Largest amount of cash an initial machine holds.
MaxCash == 12
\* Longest keystroke register the keypad actions build or Init draws.
MaxLen == 2
\* Number of distinct fingerprints of the hashing collaborator.
HashMod == 3

\* ------------------------------------------------------------ value types
\* enum Key
Digits == {"One", "Two", "Three", "Four"}
Key == Digits \cup {"Enter"}

\* enum Auth
Waiting == [tag |-> "Waiting"]
Authenticating(pin_hash) == [tag |-> "Authenticating", pin_hash |-> pin_hash]
Authenticated == [tag |-> "Authenticated"]

\* enum Action
SwipeCard(code_hash) == [code_hash |-> code_hash, type |-> "SwipeCard"]
PressKey(key) == [type |-> "PressKey", key |-> key]

\* struct Atm
Atm(cash, auth, reg) ==
    [cash_inside |-> cash, expected_pin_hash |-> auth, keystroke_register |-> reg]

\* The fingerprints a card can carry (u64 in the source, bounded here).
Fingerprints == 0 .. (HashMod - 1)

\* -------------------------------------------------- hashing collaborator
\* The discriminant of a key, which #[derive(Hash)] feeds to the hasher.
Discriminant(k) ==
    CASE k = "One" -> 0
      [] k = "Two" -> 1
      [] k = "Three" -> 2
      [] k = "Four" -> 3
      [] k = "Enter" -> 4

\* crate::hash: an ordered key sequence to a fingerprint.  Not injective,
\* as no hash into a fixed-size range is.
RECURSIVE hash(_)
hash(keys) ==
    IF keys = <<>> THEN 1 % HashMod
    ELSE (2 * hash(SubSeq(keys, 1, Len(keys) - 1)) + Discriminant(keys[Len(keys)]) + 1)
            % HashMod

\* ------------------------------------------------------------ FromKeyVec
\* fn map(k: &Key) -> &str on the digit keys, the character as its value.
DigitOf(k) ==
    CASE k = "One" -> 1
      [] k = "Two" -> 2
      [] k = "Three" -> 3
      [] k = "Four" -> 4

\* map applied to every key and collected: the digit characters of the
\* register, Enter contributing the empty string.
RECURSIVE num_string(_)
num_string(keys) ==
    IF keys = <<>> THEN <<>>
    ELSE LET k == Head(keys) IN
         (IF k \in Digits THEN <<DigitOf(k)>> ELSE <<>>) \o num_string(Tail(keys))

\* The decimal digits of u64::MAX = 18446744073709551615.
U64MaxDigits == <<1,8,4,4,6,7,4,4,0,7,3,7,0,9,5,5,1,6,1,5>>

\* ds > es for two digit strings of the same length.
RECURSIVE DigitsGreater(_, _)
DigitsGreater(ds, es) ==
    IF ds = <<>> THEN FALSE
    ELSE IF Head(ds) # Head(es) THEN Head(ds) > Head(es)
    ELSE DigitsGreater(Tail(ds), Tail(es))

\* parse::<u64> fails on the empty string and on a value above u64::MAX.
ParseFails(ds) ==
    \/ ds = <<>>
    \/ Len(ds) > Len(U64MaxDigits)
    \/ Len(ds) = Len(U64MaxDigits) /\ DigitsGreater(ds, U64MaxDigits)

RECURSIVE Base10(_)
Base10(ds) ==
    IF ds = <<>> THEN 0
    ELSE 10 * Base10(SubSeq(ds, 1, Len(ds) - 1)) + ds[Len(ds)]

\* A register that does not parse read as a request for 1.
FromKeyVec_default_one(keys) ==
    LET ds == num_string(keys) IN
    IF ParseFails(ds) THEN 1 ELSE Base10(ds)

\* A number too large wrapped around instead of rejected: its lowest decimal
\* digit is what is left of it.
FromKeyVec_low_digit(keys) ==
    LET ds == num_string(keys) IN
    IF ds = <<>> THEN 0
    ELSE IF ParseFails(ds) THEN ds[Len(ds)]
    ELSE Base10(ds)

\* <u64 as FromKeyVec>::from: num_string.parse::<u64>().unwrap_or(0)
FromKeyVec(keys) ==
    LET ds == num_string(keys) IN
    IF ParseFails(ds) THEN 0 ELSE Base10(ds)

\* ------------------------------------------------------------- impl Atm
\* The key put in front of the register instead of pushed at its end.
add_key_to_register_front(self, key) ==
    [self EXCEPT !.keystroke_register = <<key>> \o @]

add_key_to_register(self, key) ==
    [self EXCEPT !.keystroke_register = Append(@, key)]

\* The register left as it was.
reset_keystroke_register_skipped(self) ==
    self

reset_keystroke_register(self) ==
    [self EXCEPT !.keystroke_register = <<>>]

\* An empty register accepted as the PIN of any card.
is_correct_pin_or_empty(self, pin_hash) ==
    hash(self.keystroke_register) = pin_hash \/ self.keystroke_register = <<>>

\* Every keyed PIN accepted.
is_correct_pin_always(self, pin_hash) ==
    TRUE

is_correct_pin(self, pin_hash) ==
    hash(self.keystroke_register) = pin_hash

\* The phase left as it was.
reset_expected_pin_hash_skipped(self) ==
    self

reset_expected_pin_hash(self) ==
    [self EXCEPT !.expected_pin_hash = Waiting]

\* The comparison off by one: a request for exactly the cash inside refused.
update_cash_strict(amount_to_withdraw, cash) ==
    IF amount_to_withdraw >= cash THEN cash ELSE cash - amount_to_withdraw

\* An over-request paid out with all the cash inside.
update_cash_clamped(amount_to_withdraw, cash) ==
    IF amount_to_withdraw > cash THEN 0 ELSE cash - amount_to_withdraw

\* The subtraction without the comparison in front of it.
update_cash_unchecked(amount_to_withdraw, cash) ==
    cash - amount_to_withdraw

\* let update_cash = if amount_to_withdraw > cash_inside { .. } else { .. }
update_cash(amount_to_withdraw, cash) ==
    IF amount_to_withdraw > cash THEN cash ELSE cash - amount_to_withdraw

\* A swipe taken for an authentication.
next_state_waiting_skips_pin(same_state, action) ==
    IF action.type = "SwipeCard"
    THEN [same_state EXCEPT !.expected_pin_hash = Authenticated]
    ELSE same_state

\* A swipe that also clears the register.
next_state_waiting_clears(same_state, action) ==
    IF action.type = "SwipeCard"
    THEN [same_state EXCEPT !.expected_pin_hash = Authenticating(action.code_hash),
                            !.keystroke_register = <<>>]
    ELSE same_state

\* Keys pressed before a swipe kept in the register.
next_state_waiting_keeps_keys(same_state, action) ==
    IF action.type = "SwipeCard"
    THEN [same_state EXCEPT !.expected_pin_hash = Authenticating(action.code_hash)]
    ELSE IF action.key \in Digits
    THEN [same_state EXCEPT !.keystroke_register = Append(@, action.key)]
    ELSE same_state

\* Auth::Waiting => match t
next_state_waiting(same_state, action) ==
    IF action.type = "SwipeCard"
    THEN [same_state EXCEPT !.expected_pin_hash = Authenticating(action.code_hash)]
    ELSE same_state

\* A second swipe replacing the expected fingerprint.
next_state_authenticating_reswipe(same_state, pin_hash, action) ==
    IF action.type = "PressKey" /\ action.key = "Enter"
    THEN LET pin_correct == hash(same_state.keystroke_register) = pin_hash
             cleared == [same_state EXCEPT !.keystroke_register = <<>>,
                                           !.expected_pin_hash = Waiting]
         IN IF pin_correct
            THEN [cleared EXCEPT !.expected_pin_hash = Authenticated]
            ELSE cleared
    ELSE IF action.type = "PressKey"
    THEN [same_state EXCEPT !.keystroke_register = Append(@, action.key)]
    ELSE [same_state EXCEPT !.expected_pin_hash = Authenticating(action.code_hash)]

\* The keyed PIN left in the register once it is accepted.
next_state_authenticating_keeps_pin(same_state, pin_hash, action) ==
    IF action.type = "PressKey" /\ action.key = "Enter"
    THEN IF hash(same_state.keystroke_register) = pin_hash
         THEN [same_state EXCEPT !.expected_pin_hash = Authenticated]
         ELSE [same_state EXCEPT !.keystroke_register = <<>>,
                                 !.expected_pin_hash = Waiting]
    ELSE IF action.type = "PressKey"
    THEN [same_state EXCEPT !.keystroke_register = Append(@, action.key)]
    ELSE same_state

\* Auth::Authenticating(pin_hash) => match t
next_state_authenticating(same_state, pin_hash, action) ==
    IF action.type = "PressKey" /\ action.key = "Enter"
    THEN LET pin_correct == is_correct_pin(same_state, pin_hash)
             cleared == reset_expected_pin_hash(reset_keystroke_register(same_state))
         IN IF pin_correct
            THEN [cleared EXCEPT !.expected_pin_hash = Authenticated]
            ELSE cleared
    ELSE IF action.type = "PressKey"
    THEN add_key_to_register(same_state, action.key)
    ELSE same_state

\* Enter ignored until an amount has been keyed in.
next_state_authenticated_waits_for_amount(same_state, action) ==
    IF /\ action.type = "PressKey"
       /\ action.key = "Enter"
       /\ same_state.keystroke_register # <<>>
    THEN [same_state EXCEPT
            !.cash_inside = update_cash(FromKeyVec(same_state.keystroke_register), @),
            !.keystroke_register = <<>>,
            !.expected_pin_hash = Waiting]
    ELSE IF action.type = "PressKey" /\ action.key \in Digits
    THEN [same_state EXCEPT !.keystroke_register = Append(@, action.key)]
    ELSE same_state

\* A swipe on an authenticated machine starting a new authentication.
next_state_authenticated_reswipe(same_state, action) ==
    IF action.type = "PressKey" /\ action.key = "Enter"
    THEN [same_state EXCEPT
            !.cash_inside = update_cash(FromKeyVec(same_state.keystroke_register), @),
            !.keystroke_register = <<>>,
            !.expected_pin_hash = Waiting]
    ELSE IF action.type = "PressKey"
    THEN [same_state EXCEPT !.keystroke_register = Append(@, action.key)]
    ELSE [same_state EXCEPT !.expected_pin_hash = Authenticating(action.code_hash)]

\* The arm for any key placed before the arm for Enter.
next_state_authenticated_enter_appended(same_state, action) ==
    IF action.type = "PressKey"
    THEN [same_state EXCEPT !.keystroke_register = Append(@, action.key)]
    ELSE same_state

\* Auth::Authenticated => match t
next_state_authenticated(same_state, action) ==
    IF action.type = "PressKey" /\ action.key = "Enter"
    THEN LET amount_to_withdraw == FromKeyVec(same_state.keystroke_register)
             paid == [same_state EXCEPT
                        !.cash_inside = update_cash(amount_to_withdraw, @)]
         IN reset_expected_pin_hash(reset_keystroke_register(paid))
    ELSE IF action.type = "PressKey"
    THEN add_key_to_register(same_state, action.key)
    ELSE same_state

\* fn next_state(starting_state, t)
next_state(state, action) ==
    CASE state.expected_pin_hash.tag = "Waiting" ->
            next_state_waiting(state, action)
      [] state.expected_pin_hash.tag = "Authenticating" ->
            next_state_authenticating(state, state.expected_pin_hash.pin_hash, action)
      [] state.expected_pin_hash.tag = "Authenticated" ->
            next_state_authenticated(state, action)

\* ------------------------------------------------------------------ state
VARIABLES
    cash_inside,          \* How much money is in the ATM
    expected_pin_hash,    \* The machine's authentication status
    keystroke_register,   \* The keys pressed since the last Enter
    starting_state,       \* the state the last call of next_state was given
    t,                    \* the transition the last call of next_state was given
    session,              \* what the caller did since it last swiped a card
    attempt               \* the card last swiped on a waiting machine and its fate

vars == <<cash_inside, expected_pin_hash, keystroke_register, starting_state, t, session,
          attempt>>

\* The machine state as the value next_state takes and returns.
current == Atm(cash_inside, expected_pin_hash, keystroke_register)

NoAction == [type |-> "None"]

\* No card swiped on an idle machine yet, or the caller left the script.
NoSession == [stage |-> "off"]

\* The stages in which the caller is not part way through a session.
OutOfSession == {"done", "off"}

\* The caller's walk through one session: a swipe on an idle machine with
\* the fingerprint of a PIN, the digits of that PIN, Enter, the digits of an
\* amount, Enter, and nothing else in between.
session_after(sess, state, action) ==
    IF /\ action.type = "SwipeCard"
       /\ state.expected_pin_hash = Waiting
       /\ state.keystroke_register = <<>>
    THEN [stage |-> "pin", start_cash |-> state.cash_inside,
          card_hash |-> action.code_hash, keyed_pin |-> <<>>, keyed_amount |-> <<>>]
    ELSE IF sess.stage \in OutOfSession \/ action.type = "SwipeCard"
    THEN NoSession
    ELSE IF action.key \in Digits
    THEN IF sess.stage = "pin"
         THEN [sess EXCEPT !.keyed_pin = Append(@, action.key)]
         ELSE [sess EXCEPT !.keyed_amount = Append(@, action.key)]
    ELSE IF sess.stage = "pin"
    THEN IF hash(sess.keyed_pin) = sess.card_hash
         THEN [sess EXCEPT !.stage = "amount"]
         ELSE NoSession
    ELSE [sess EXCEPT !.stage = "done"]

\* No card has been swiped on a waiting machine yet.
NoAttempt == <<>>

\* What became of the card last swiped on a waiting machine: its fingerprint,
\* how far the caller got with it, and the cash inside when it was swiped.
\* "swiped" until the first Enter, then "matched" or "failed" as the register
\* hashed to the fingerprint or not, and "used" at the Enter after a match.
attempt_after(att, state, action) ==
    IF state.expected_pin_hash = Waiting
    THEN IF action.type = "SwipeCard"
         THEN <<action.code_hash, "swiped", state.cash_inside>>
         ELSE att
    ELSE IF att = NoAttempt \/ action.type = "SwipeCard" \/ action.key \in Digits
    THEN att
    ELSE IF att[2] = "swiped"
    THEN IF hash(state.keystroke_register) = att[1]
         THEN <<att[1], "matched", att[3]>>
         ELSE <<att[1], "failed", att[3]>>
    ELSE IF att[2] = "matched"
    THEN <<att[1], "used", att[3]>>
    ELSE att

\* Registers of digit keys too long to be a u64: twenty digits that start
\* above the leading 1 of u64::MAX, and twenty-one digits.
LongRegister(n, first, rest) == [i \in 1 .. n |-> IF i = 1 THEN first ELSE rest]

LongRegisters ==
    {LongRegister(Len(U64MaxDigits), first, rest) :
        first \in {"Four", "Three", "Two"}, rest \in {"Four", "One"}}
    \cup {LongRegister(Len(U64MaxDigits) + 1, first, "One") : first \in {"Four", "One"}}

\* All key sequences of length at most n over the keys ks.
SeqsUpTo(ks, n) == UNION {[1 .. m -> ks] : m \in 0 .. n}

AuthStates == {Waiting, Authenticated} \cup {Authenticating(fp) : fp \in Fingerprints}

\* A machine as the hosting application first creates it: some cash,
\* Waiting, nothing keyed in.
Init ==
    /\ cash_inside \in 0 .. MaxCash
    /\ expected_pin_hash = Waiting
    /\ keystroke_register = <<>>
    /\ starting_state = current
    /\ t = NoAction
    /\ session = NoSession
    /\ attempt = NoAttempt

\* Any value of the Atm struct, as the tests build them.
InitAny ==
    /\ cash_inside \in 0 .. MaxCash
    /\ expected_pin_hash \in AuthStates
    /\ keystroke_register \in SeqsUpTo(Key, MaxLen) \cup LongRegisters
    /\ starting_state = current
    /\ t = NoAction
    /\ session = NoSession
    /\ attempt = NoAttempt

\* One call of next_state on the current state; the caller keeps the result.
\* The keypad stops adding keys to a register of MaxLen keys.
Step(action) ==
    LET new_state == next_state(current, action) IN
    /\ \/ Len(new_state.keystroke_register) <= MaxLen
       \/ Len(new_state.keystroke_register) <= Len(keystroke_register)
    /\ cash_inside' = new_state.cash_inside
    /\ expected_pin_hash' = new_state.expected_pin_hash
    /\ keystroke_register' = new_state.keystroke_register
    /\ starting_state' = current
    /\ t' = action
    /\ session' = session_after(session, current, action)
    /\ attempt' = attempt_after(attempt, current, action)

DoSwipeCard == \E code_hash \in Fingerprints : Step(SwipeCard(code_hash))

DoPressKey == \E key \in Key : Step(PressKey(key))

Next == DoSwipeCard \/ DoPressKey

Spec == Init /\ [][Next]_vars

SpecAny == InitAny /\ [][Next]_vars

\* ----------------------------------------------------------- properties
\* next_state has been called at least once.
Called == t # NoAction

EnterPressed == Called /\ t = PressKey("Enter")

\* The register holds digit keys only, and at least one.
IsNumber(reg) == reg # <<>> /\ \A i \in 1 .. Len(reg) : reg[i] \in Digits

\* The integer a register of digit keys represents.
NumberOf(reg) == Base10([i \in 1 .. Len(reg) |-> DigitOf(reg[i])])

Min(a, b) == IF a < b THEN a ELSE b

\* A number of fewer than ten digits, whose value NumberOf computes.
IsAmount(reg) == IsNumber(reg) /\ Len(reg) < 10

\* Enter was pressed on an authenticated machine whose register is a number.
WithdrawalRequested ==
    /\ EnterPressed
    /\ starting_state.expected_pin_hash = Authenticated
    /\ IsAmount(starting_state.keystroke_register)

\* C1 as stated: Enter on an authenticated machine with cash C and a register
\* representing W leaves C - min(W, C) in the machine, phase Waiting and an
\* empty register, so that a request above C empties the machine.
C1_ClampedWithdrawal ==
    WithdrawalRequested =>
        LET C == starting_state.cash_inside
            W == NumberOf(starting_state.keystroke_register)
        IN current = Atm(C - Min(W, C), Waiting, <<>>)

\* C1 amended: Enter on an authenticated machine with cash C and a register
\* representing W leaves C - W when W <= C and leaves C untouched when W > C;
\* in both cases the phase is Waiting and the register is empty.
C1_WithdrawOrRefuse ==
    WithdrawalRequested =>
        LET C == starting_state.cash_inside
            W == NumberOf(starting_state.keystroke_register)
        IN current = Atm(IF W <= C THEN C - W ELSE C, Waiting, <<>>)

\* An authenticated machine was asked for exactly the cash it held.
C1_Witness ==
    /\ WithdrawalRequested
    /\ NumberOf(starting_state.keystroke_register) = starting_state.cash_inside
    /\ cash_inside = 0

\* C2: Enter on an authenticated machine whose register represents more than
\* cash_inside dispenses nothing: cash unchanged, phase Waiting, register empty.
C2_OverRequestDispensesNothing ==
    (WithdrawalRequested
        /\ NumberOf(starting_state.keystroke_register) > starting_state.cash_inside)
    => current = Atm(starting_state.cash_inside, Waiting, <<>>)

\* More than the machine held was requested of a machine that held some cash.
C2_Witness ==
    /\ WithdrawalRequested
    /\ NumberOf(starting_state.keystroke_register) > starting_state.cash_inside
    /\ starting_state.cash_inside > 0

\* Enter was pressed while the machine was waiting for a PIN.
PinSubmitted ==
    /\ EnterPressed
    /\ starting_state.expected_pin_hash.tag = "Authenticating"

\* C3: Enter in phase Authenticating(fp) with register R yields Authenticated
\* exactly when hash(R) = fp and Waiting otherwise; the register is empty and
\* cash_inside unchanged either way.
C3_PinDecidesPhase ==
    PinSubmitted =>
        LET fp == starting_state.expected_pin_hash.pin_hash
            R == starting_state.keystroke_register
        IN /\ (expected_pin_hash = Authenticated) <=> (hash(R) = fp)
           /\ hash(R) # fp => expected_pin_hash = Waiting
           /\ keystroke_register = <<>>
           /\ cash_inside = starting_state.cash_inside

\* A keyed PIN of two digits was rejected.
C3_Witness ==
    /\ PinSubmitted
    /\ Len(starting_state.keystroke_register) = 2
    /\ hash(starting_state.keystroke_register) # starting_state.expected_pin_hash.pin_hash
    /\ expected_pin_hash = Waiting

\* The caller went through a whole session for an amount the machine held.
SessionCompleted ==
    /\ session.stage = "done"
    /\ IsNumber(session.keyed_amount)
    /\ NumberOf(session.keyed_amount) <= session.start_cash

\* C4: from Waiting with an empty register and cash C, SwipeCard(hash(P)),
\* the digits of P, Enter, the digits of an amount W <= C, Enter ends in
\* Waiting with an empty register and cash_inside = C - W.
C4_CompleteSession ==
    SessionCompleted =>
        current = Atm(session.start_cash - NumberOf(session.keyed_amount), Waiting, <<>>)

\* A session with a two-digit PIN and a two-digit amount was completed.
C4_Witness ==
    /\ SessionCompleted
    /\ Len(session.keyed_pin) = 2
    /\ Len(session.keyed_amount) = 2
    /\ cash_inside < session.start_cash

\* C5: over any sequence of events cash_inside never goes below 0 and no step
\* increases it.
C5_CashNeverNegativeNeverGrows ==
    /\ cash_inside >= 0
    /\ cash_inside <= starting_state.cash_inside

\* A step took cash out of the machine and left some.
C5_Witness ==
    /\ Called
    /\ cash_inside < starting_state.cash_inside
    /\ cash_inside > 0

\* C6: in every state reachable from Waiting with an empty register, the
\* register is empty whenever the phase is Waiting.
C6_WaitingRegisterEmpty ==
    expected_pin_hash = Waiting => keystroke_register = <<>>

\* The machine came back to Waiting from a state with keys in its register.
C6_Witness ==
    /\ Called
    /\ starting_state.keystroke_register # <<>>
    /\ starting_state.expected_pin_hash # Waiting
    /\ expected_pin_hash = Waiting

\* C7: SwipeCard(fp) in phase Waiting yields Authenticating(fp) with
\* cash_inside and the register unchanged.
C7_SwipeStartsAuthenticating ==
    (Called /\ t.type = "SwipeCard" /\ starting_state.expected_pin_hash = Waiting)
    => current = Atm(starting_state.cash_inside, Authenticating(t.code_hash),
                     starting_state.keystroke_register)

\* A card was swiped on a waiting machine that had keys in its register.
C7_Witness ==
    /\ Called
    /\ t.type = "SwipeCard"
    /\ starting_state.expected_pin_hash = Waiting
    /\ starting_state.keystroke_register # <<>>

\* C8: any PressKey (digit or Enter) in phase Waiting returns the input state.
C8_KeysIgnoredWhileWaiting ==
    (Called /\ t.type = "PressKey" /\ starting_state.expected_pin_hash = Waiting)
    => current = starting_state

\* A digit was pressed on a waiting machine with room left in its register.
C8_Witness ==
    /\ Called
    /\ t.type = "PressKey"
    /\ t.key \in Digits
    /\ starting_state.expected_pin_hash = Waiting
    /\ Len(starting_state.keystroke_register) < MaxLen

\* C9: SwipeCard(fp2) in phase Authenticating(fp) returns the input state,
\* whether fp2 equals fp or not.
C9_SecondSwipeIgnored ==
    (Called /\ t.type = "SwipeCard"
        /\ starting_state.expected_pin_hash.tag = "Authenticating")
    => current = starting_state

\* A card with another fingerprint was swiped part way through a PIN.
C9_Witness ==
    /\ Called
    /\ t.type = "SwipeCard"
    /\ starting_state.expected_pin_hash.tag = "Authenticating"
    /\ starting_state.expected_pin_hash.pin_hash # t.code_hash
    /\ starting_state.keystroke_register # <<>>

\* A digit was pressed after the card was swiped.
DigitPressedInSession ==
    /\ Called
    /\ t.type = "PressKey"
    /\ t.key \in Digits
    /\ starting_state.expected_pin_hash # Waiting

\* C10: PressKey(d) for a digit d in phase Authenticating or Authenticated
\* returns the input register with d appended at its end, with the phase
\* (fingerprint included) and cash_inside unchanged.
C10_DigitAppended ==
    DigitPressedInSession =>
        current = Atm(starting_state.cash_inside, starting_state.expected_pin_hash,
                      Append(starting_state.keystroke_register, t.key))

\* A second, different digit was pressed.
C10_Witness ==
    /\ DigitPressedInSession
    /\ Len(keystroke_register) = 2
    /\ keystroke_register[1] # keystroke_register[2]

\* The last call changed the phase to Authenticated.
BecameAuthenticated ==
    /\ Called
    /\ expected_pin_hash = Authenticated
    /\ starting_state.expected_pin_hash # Authenticated

\* C11: the only step that makes the phase Authenticated from another phase
\* is Enter in Authenticating(fp) with hash(register) = fp; no step from
\* Waiting leads to Authenticated, and an Enter in Authenticating that does
\* not match leads to Waiting.
C11_OnlyMatchAuthenticates ==
    /\ BecameAuthenticated =>
        /\ t = PressKey("Enter")
        /\ starting_state.expected_pin_hash.tag = "Authenticating"
        /\ hash(starting_state.keystroke_register)
              = starting_state.expected_pin_hash.pin_hash
    /\ (Called /\ starting_state.expected_pin_hash = Waiting)
        => expected_pin_hash # Authenticated
    /\ (PinSubmitted /\ hash(starting_state.keystroke_register)
                            # starting_state.expected_pin_hash.pin_hash)
        => expected_pin_hash = Waiting

\* A keyed PIN of two digits was accepted.
C11_Witness ==
    /\ BecameAuthenticated
    /\ Len(starting_state.keystroke_register) = 2

\* C12: next_state is total: for every state and event it returns a machine
\* state, that is an amount of cash that is no negative number and no more
\* than before (the subtraction did not underflow), one of the three phases
\* and a register of keys.
C12_ReturnsAState ==
    Called =>
        /\ cash_inside \in 0 .. starting_state.cash_inside
        /\ expected_pin_hash \in AuthStates
        /\ \A i \in 1 .. Len(keystroke_register) : keystroke_register[i] \in Key

\* Enter was pressed with a register asking for more than the machine held,
\* the case in which an unguarded subtraction underflows.
C12_Witness ==
    /\ EnterPressed
    /\ starting_state.expected_pin_hash = Authenticated
    /\ FromKeyVec(starting_state.keystroke_register) > starting_state.cash_inside
    /\ cash_inside = starting_state.cash_inside

\* Enter was pressed on an authenticated machine with nothing keyed in.
EmptyAmountEntered ==
    /\ EnterPressed
    /\ starting_state.expected_pin_hash = Authenticated
    /\ starting_state.keystroke_register = <<>>

\* C13: Enter on an authenticated machine with an empty register treats the
\* amount as 0: cash_inside unchanged, phase Waiting, register still empty.
C13_EmptyRegisterWithdrawsNothing ==
    EmptyAmountEntered => current = Atm(starting_state.cash_inside, Waiting, <<>>)

\* Nothing was keyed in on an authenticated machine that held cash.
C13_Witness ==
    /\ EmptyAmountEntered
    /\ starting_state.cash_inside > 0

\* More than the cash inside was requested of an authenticated machine.
OverRequested ==
    /\ WithdrawalRequested
    /\ NumberOf(starting_state.keystroke_register) > starting_state.cash_inside

\* The registers of at most MaxLen digits that represent exactly c.
ExactRequests(c) == {reg \in SeqsUpTo(Digits, MaxLen) : IsAmount(reg) /\ NumberOf(reg) = c}

\* What next_state returns when the state the last call was given holds reg
\* instead and Enter is pressed.
OtherRequest(reg) ==
    next_state([starting_state EXCEPT !.keystroke_register = reg], PressKey("Enter"))

\* C14 as stated: on an authenticated machine with cash C, Enter with a
\* register requesting more than C and Enter with a register requesting
\* exactly C return the same state.
C14_OverAndExactRequestAlike ==
    OverRequested =>
        \A reg \in ExactRequests(starting_state.cash_inside) : OtherRequest(reg) = current

\* C14 amended: the two returned states agree in phase (Waiting) and register
\* (empty) and differ in cash_inside: the over-request leaves C in the
\* machine, the request for exactly C leaves 0.
C14_OverAndExactRequestDifferInCash ==
    OverRequested =>
        /\ current = Atm(starting_state.cash_inside, Waiting, <<>>)
        /\ \A reg \in ExactRequests(starting_state.cash_inside) :
              /\ OtherRequest(reg) = Atm(0, Waiting, <<>>)
              /\ OtherRequest(reg) # current

\* More than C was requested of a machine whose cash C can be keyed in.
C14_Witness ==
    /\ OverRequested
    /\ ExactRequests(starting_state.cash_inside) # {}

\* The PIN keyed in for the card last swiped was rejected.
PinRejected == attempt # NoAttempt /\ attempt[2] = "failed"

\* C15: after a PIN mismatch there is no retry: once Enter in Authenticating
\* has led to Waiting, every following PressKey leaves the machine as it is,
\* Waiting with an empty register and its cash, until a card is swiped.
C15_NoRetryAfterMismatch ==
    PinRejected => current = Atm(attempt[3], Waiting, <<>>)

\* Enter was pressed again after a rejection.
C15_Witness ==
    /\ PinRejected
    /\ EnterPressed
    /\ starting_state.expected_pin_hash = Waiting

\* The state after Enter is pressed twice in the state s.
AfterTwoEnters(s) == next_state(next_state(s, PressKey("Enter")), PressKey("Enter"))

\* C16: no state is terminal: from every reachable state at most two
\* consecutive Enter presses lead to Waiting with an empty register, and from
\* Waiting a SwipeCard starts a new session.
C16_WaitingReentered ==
    /\ AfterTwoEnters(current).expected_pin_hash = Waiting
    /\ AfterTwoEnters(current).keystroke_register = <<>>
    /\ expected_pin_hash = Waiting =>
          \A code_hash \in Fingerprints :
              next_state(current, SwipeCard(code_hash)).expected_pin_hash
                  = Authenticating(code_hash)
    /\ (EnterPressed /\ starting_state.expected_pin_hash = Authenticated)
          => (expected_pin_hash = Waiting /\ keystroke_register = <<>>)

\* Enter was pressed twice in a row after a PIN, and the machine waits again.
C16_Witness ==
    /\ session.stage = "done"
    /\ session.keyed_pin # <<>>
    /\ session.keyed_amount = <<>>
    /\ expected_pin_hash = Waiting

\* A card was swiped on an authenticated machine.
SwipedWhileAuthenticated ==
    /\ Called
    /\ t.type = "SwipeCard"
    /\ starting_state.expected_pin_hash = Authenticated

\* C17: SwipeCard(fp) in phase Authenticated returns the input state.
C17_SwipeIgnoredWhileAuthenticated ==
    SwipedWhileAuthenticated => current = starting_state

\* A card was swiped part way through keying in an amount.
C17_Witness ==
    /\ SwipedWhileAuthenticated
    /\ starting_state.keystroke_register # <<>>

\* C18: in every state reachable from an empty register, the register holds
\* digit keys only and never Enter.
C18_RegisterHoldsDigitsOnly ==
    \A i \in 1 .. Len(keystroke_register) : keystroke_register[i] \in Digits

\* Two digits were keyed in after an Enter.
C18_Witness ==
    /\ session.stage = "amount"
    /\ Len(keystroke_register) = 2

\* C19: cash_inside changes only on Enter in phase Authenticated; in a run
\* from Waiting every decrease of cash_inside comes after the swipe of a card
\* on the waiting machine and an Enter whose register hashed to that card's
\* fingerprint.
C19_CashLeavesOnlyAfterPin ==
    cash_inside # starting_state.cash_inside =>
        /\ t = PressKey("Enter")
        /\ starting_state.expected_pin_hash = Authenticated
        /\ attempt # NoAttempt
        /\ attempt[2] = "used"

\* Cash left the machine.
C19_Witness ==
    /\ cash_inside < starting_state.cash_inside
    /\ attempt # NoAttempt
    /\ attempt[2] = "used"

\* A register of digit keys 1..4 whose value is above u64::MAX: more than
\* twenty digits, or twenty digits not starting with 1 (a second digit of at
\* most 4 keeps every number that starts with 1 below 18...).
ExceedsU64(reg) ==
    /\ IsNumber(reg)
    /\ \/ Len(reg) > 20
       \/ Len(reg) = 20 /\ reg[1] # "One"

\* Enter was pressed on an authenticated machine whose register is too large.
TooLargeRequested ==
    /\ EnterPressed
    /\ starting_state.expected_pin_hash = Authenticated
    /\ ExceedsU64(starting_state.keystroke_register)

\* C20: Enter on an authenticated machine whose register is a number that
\* does not fit in 64 bits treats the amount as 0: cash_inside unchanged,
\* phase Waiting, register empty; no wrapped-around amount is withdrawn.
C20_TooLargeWithdrawsNothing ==
    TooLargeRequested => current = Atm(starting_state.cash_inside, Waiting, <<>>)

\* Twenty digits starting with 2 were requested of a machine that held cash.
C20_Witness ==
    /\ TooLargeRequested
    /\ Len(starting_state.keystroke_register) = 20
    /\ starting_state.keystroke_register[1] = "Two"
    /\ starting_state.cash_inside > 0

====
